---- MODULE Spec2Model ----
(***************************************************************************)
(* SoupofLetters: a timed word-search game.                                *)
(*   utils/gameLogic (src/unnamed/part_000): generateLevel, getCellsBetween *)
(*   components/Grid.tsx: the drag selection of the grid component         *)
(*   App.tsx: game state, timer, match evaluation and scoring              *)
(* Coordinates are 0-indexed as in the source.  A word is a sequence of    *)
(* one-letter strings; "" is the empty cell of the generator's tempGrid.   *)
(***************************************************************************)
EXTENDS Integers, Sequences, FiniteSets, TLC

\* ------------------------------------------------------------------ sizes
\* constants.ts is not among the sources: the constants imported from it
\* (part_000 line 1, App.tsx line 5) are given small values here.
\* side of the square grid
GRID_SIZE == 3
\* words drawn for a level
WORD_COUNT_PER_LEVEL == 2
\* seconds on the timer when a game starts
GAME_DURATION_SECONDS == 6
\* retry budget of the placement loop (part_000 line 73)
MAX_ATTEMPTS == 100
\* last seconds of the timer in which a match is a bonus (App.tsx line 196)
BONUS_WINDOW == 5

Idx == 0 .. (GRID_SIZE - 1)
Coordinate == [row : Idx, col : Idx]
Coord(r, c) == [row |-> r, col |-> c]

Abs(x) == IF x < 0 THEN -x ELSE x
Max(a, b) == IF a >= b THEN a ELSE b
Min(a, b) == IF a <= b THEN a ELSE b

\* ------------------------------------------------- getCellsBetween (pure)
\* part_000 lines 129-138: the classification of a gesture
isHorizontal(start, end) == Abs(end.row - start.row) = 0
isVertical(start, end) == Abs(end.col - start.col) = 0
isDiagonalMutTol(start, end) ==
  Abs(Abs(end.col - start.col) - Abs(end.row - start.row)) <= 2
isDiagonal(start, end) ==
  Abs(Abs(end.col - start.col) - Abs(end.row - start.row)) < 2

\* part_000 lines 147-150: for (c = min(x0,x1); c <= max(x0,x1); c++)
HorizontalCellsMutShort(start, end) ==
  LET lo == Min(start.col, end.col)
      hi == Max(start.col, end.col)
  IN  [i \in 1 .. (hi - lo) |-> Coord(start.row, lo + i - 1)]
HorizontalCells(start, end) ==
  LET lo == Min(start.col, end.col)
      hi == Max(start.col, end.col)
  IN  [i \in 1 .. (hi - lo + 1) |-> Coord(start.row, lo + i - 1)]

\* part_000 lines 151-154: for (r = min(y0,y1); r <= max(y0,y1); r++)
VerticalCellsMutDirected(start, end) ==
  LET n == Abs(end.row - start.row)
      step == IF end.row >= start.row THEN 1 ELSE -1
  IN  [i \in 1 .. (n + 1) |-> Coord(start.row + (i - 1) * step, start.col)]
VerticalCells(start, end) ==
  LET lo == Min(start.row, end.row)
      hi == Max(start.row, end.row)
  IN  [i \in 1 .. (hi - lo + 1) |-> Coord(lo + i - 1, start.col)]

\* part_000 lines 155-171: steps+1 points, both axes stepping by their sign
DiagonalCellsMutSign(start, end) ==
  LET dx == Abs(end.col - start.col)
      dy == Abs(end.row - start.row)
      steps == Max(dx, dy)
      stepX == IF end.col > start.col THEN 1 ELSE -1
      stepY == IF end.row > start.row THEN 1 ELSE 1
  IN  [i \in 1 .. (steps + 1) |->
         Coord(start.row + (i - 1) * stepY, start.col + (i - 1) * stepX)]
DiagonalCells(start, end) ==
  LET dx == Abs(end.col - start.col)
      dy == Abs(end.row - start.row)
      steps == Max(dx, dy)
      stepX == IF end.col > start.col THEN 1 ELSE -1
      stepY == IF end.row > start.row THEN 1 ELSE -1
  IN  [i \in 1 .. (steps + 1) |->
         Coord(start.row + (i - 1) * stepY, start.col + (i - 1) * stepX)]

\* part_000 lines 122-174
getCellsBetween(start, end) ==
  IF ~isHorizontal(start, end) /\ ~isVertical(start, end) /\ ~isDiagonal(start, end)
  THEN <<Coord(start.row, start.col)>>
  ELSE IF isHorizontal(start, end) THEN HorizontalCells(start, end)
  ELSE IF isVertical(start, end) THEN VerticalCells(start, end)
  ELSE DiagonalCells(start, end)

\* ---------------------------------------------------------- generateLevel
\* part_000 line 4.  The source text of the alphabet holds 28 UTF-16 units:
\* A..N, the two units U+00C3 U+2018 (written "#C3" and "#2018" here), O..Z.
ALPHABET ==
  << "A", "B", "C", "D", "E", "F", "G", "H", "I", "J", "K", "L", "M", "N",
     "#C3", "#2018",
     "O", "P", "Q", "R", "S", "T", "U", "V", "W", "X", "Y", "Z" >>

\* constants.ts SPANISH_WORDS: a small pool over the alphabet, holding a word
\* and its reversal, a palindrome and one word too long for the grid.
SPANISH_WORDS ==
  << <<"A", "B", "A">>, <<"A", "B">>, <<"B", "A">>, <<"A", "B", "A", "B", "A">> >>

\* Math.random() is a value x / 65537 of a linear congruential stream;
\* Math.floor(Math.random() * n) is then (x * n) \div 65537.
LcgNext(x) == (x * 75 + 74) % 65537
RandomIndex(x, n) == (x * n) \div 65537

\* part_000 line 6: ALPHABET[Math.floor(Math.random() * ALPHABET.length)]
getRandomChar(x) == ALPHABET[RandomIndex(x, Len(ALPHABET)) + 1]

\* Array.prototype.splice(index, 1) on a 0-indexed array
SpliceOut(arr, index) ==
  [i \in 1 .. (Len(arr) - 1) |-> IF i <= index THEN arr[i] ELSE arr[i + 1]]

\* part_000 lines 52-58: one iteration of the selection loop
SelectIterMutNoFilter(avail, sel, index) ==
  [avail |-> SpliceOut(avail, index), sel |-> Append(sel, avail[index + 1])]
SelectIter(avail, sel, index) ==
  [avail |-> SpliceOut(avail, index),
   sel |-> IF Len(avail[index + 1]) <= GRID_SIZE
           THEN Append(sel, avail[index + 1]) ELSE sel]

\* part_000 line 67: selectedWords.sort((a, b) => b.length - a.length);
\* Array.prototype.sort is stable, so this is an insertion from the right.
RECURSIVE InsertByLengthMutTies(_, _)
InsertByLengthMutTies(sorted, w) ==
  IF sorted = <<>> THEN <<w>>
  ELSE IF Len(sorted[Len(sorted)]) > Len(w) THEN Append(sorted, w)
  ELSE Append(InsertByLengthMutTies(SubSeq(sorted, 1, Len(sorted) - 1), w),
              sorted[Len(sorted)])
RECURSIVE InsertByLength(_, _)
InsertByLength(sorted, w) ==
  IF sorted = <<>> THEN <<w>>
  ELSE IF Len(sorted[Len(sorted)]) >= Len(w) THEN Append(sorted, w)
  ELSE Append(InsertByLength(SubSeq(sorted, 1, Len(sorted) - 1), w),
              sorted[Len(sorted)])
RECURSIVE SortByLengthDesc(_)
SortByLengthDesc(ws) ==
  IF ws = <<>> THEN <<>>
  ELSE InsertByLength(SortByLengthDesc(SubSeq(ws, 1, Len(ws) - 1)), ws[Len(ws)])

\* part_000 line 62
EmptyTempGrid == [r \in Idx |-> [c \in Idx |-> ""]]

\* part_000 lines 79-84
DirVecMutUpRight(dirIndex) ==
  CASE dirIndex = 0 -> [dr |-> 0, dc |-> 1]
    [] dirIndex = 1 -> [dr |-> 1, dc |-> 0]
    [] dirIndex = 2 -> [dr |-> 1, dc |-> 1]
    [] dirIndex = 3 -> [dr |-> -1, dc |-> 1]
DirVec(dirIndex) ==
  CASE dirIndex = 0 -> [dr |-> 0, dc |-> 1]
    [] dirIndex = 1 -> [dr |-> 1, dc |-> 0]
    [] dirIndex = 2 -> [dr |-> 1, dc |-> 1]
    [] dirIndex = 3 -> [dr |-> 1, dc |-> -1]

\* part_000 lines 8-26
isValidPositionMutNoCollision(g, word, startRow, startCol, dr, dc) ==
  \A i \in 0 .. (Len(word) - 1) :
    /\ startRow + i * dr \in Idx
    /\ startCol + i * dc \in Idx
isValidPosition(g, word, startRow, startCol, dr, dc) ==
  \A i \in 0 .. (Len(word) - 1) :
    LET r == startRow + i * dr
        c == startCol + i * dc
    IN  /\ ~(r < 0 \/ r >= GRID_SIZE \/ c < 0 \/ c >= GRID_SIZE)
        /\ ~(g[r][c] # "" /\ g[r][c] # word[i + 1])

\* part_000 lines 36-43: the coordinates placeWord pushes
PlaceCoords(word, startRow, startCol, dr, dc) ==
  [i \in 1 .. Len(word) |-> Coord(startRow + (i - 1) * dr, startCol + (i - 1) * dc)]

\* part_000 lines 28-44: grid[r][c] = word[i] for every letter, in order
placeWordMutShift(g, word, startRow, startCol, dr, dc) ==
  LET coords == PlaceCoords(word, startRow, startCol, dr, dc)
  IN  [grid |-> [r \in Idx |-> [c \in Idx |->
                   IF \E i \in 1 .. Len(word) : coords[i] = Coord(r, c)
                   THEN word[1]
                   ELSE g[r][c]]],
       coords |-> coords]
placeWord(g, word, startRow, startCol, dr, dc) ==
  LET coords == PlaceCoords(word, startRow, startCol, dr, dc)
  IN  [grid |-> [r \in Idx |-> [c \in Idx |->
                   IF \E i \in 1 .. Len(word) : coords[i] = Coord(r, c)
                   THEN word[CHOOSE i \in 1 .. Len(word) : coords[i] = Coord(r, c)]
                   ELSE g[r][c]]],
       coords |-> coords]

\* part_000 lines 91-96
NewLocation(word, coords) ==
  [word |-> word, coords |-> coords, found |-> FALSE, color |-> ""]

\* part_000 lines 74-98: one pass of the retry loop's body
AttemptMutWritesOnFail(g, locs, word, dirIndex, startRow, startCol) ==
  LET d == DirVec(dirIndex)
  IN  IF isValidPosition(g, word, startRow, startCol, d.dr, d.dc)
      THEN LET p == placeWord(g, word, startRow, startCol, d.dr, d.dc)
           IN  [grid |-> p.grid,
                locations |-> Append(locs, NewLocation(word, p.coords)),
                placed |-> TRUE]
      ELSE [grid |-> [g EXCEPT ![startRow][startCol] = word[1]],
            locations |-> locs, placed |-> FALSE]
Attempt(g, locs, word, dirIndex, startRow, startCol) ==
  LET d == DirVec(dirIndex)
  IN  IF isValidPosition(g, word, startRow, startCol, d.dr, d.dc)
      THEN LET p == placeWord(g, word, startRow, startCol, d.dr, d.dc)
           IN  [grid |-> p.grid,
                locations |-> Append(locs, NewLocation(word, p.coords)),
                placed |-> TRUE]
      ELSE [grid |-> g, locations |-> locs, placed |-> FALSE]

\* part_000 lines 103-116.  The cells are mapped in row-major order; a cell
\* draws its char only when it is empty and always draws its decoyChar, so the
\* cell at (r, c) sees the stream advanced once per earlier draw.  The decoy
\* (anti-scraping) letter is drawn and not kept.
RECURSIVE DrawsBefore(_, _)
DrawsBefore(g, k) ==
  IF k = 0 THEN 0
  ELSE DrawsBefore(g, k - 1)
       + (IF g[(k - 1) \div GRID_SIZE][(k - 1) % GRID_SIZE] = "" THEN 2 ELSE 1)
RECURSIVE LcgSkip(_, _)
LcgSkip(x, n) == IF n = 0 THEN x ELSE LcgSkip(LcgNext(x), n - 1)
NewCell(char) == [char |-> char, found |-> FALSE, selectedColor |-> ""]
FinalGrid(g, x) ==
  [r \in Idx |-> [c \in Idx |->
     NewCell(IF g[r][c] = ""
             THEN getRandomChar(LcgSkip(x, DrawsBefore(g, r * GRID_SIZE + c) + 1))
             ELSE g[r][c])]]

\* part_000 line 118: locations.filter(l => l.coords.length > 0)
ReturnedLocations(locs) == LET Keep(l) == Len(l.coords) > 0 IN SelectSeq(locs, Keep)

\* part_000 lines 51-59 as run on one random stream
RECURSIVE SelectWords(_, _, _)
SelectWords(avail, sel, x) ==
  IF Len(sel) < WORD_COUNT_PER_LEVEL /\ Len(avail) > 0
  THEN LET x1 == LcgNext(x)
           it == SelectIter(avail, sel, RandomIndex(x1, Len(avail)))
       IN  SelectWords(it.avail, it.sel, x1)
  ELSE [sel |-> sel, x |-> x]

\* part_000 lines 70-99: the retry loop of one word
RECURSIVE PlaceLoop(_, _, _, _, _)
PlaceLoop(g, locs, word, attempts, x) ==
  IF attempts < MAX_ATTEMPTS
  THEN LET x1 == LcgNext(x)
           x2 == LcgNext(x1)
           x3 == LcgNext(x2)
           a == Attempt(g, locs, word, RandomIndex(x1, 4),
                        RandomIndex(x2, GRID_SIZE), RandomIndex(x3, GRID_SIZE))
       IN  IF a.placed
           THEN [grid |-> a.grid, locations |-> a.locations, x |-> x3]
           ELSE PlaceLoop(g, locs, word, attempts + 1, x3)
  ELSE [grid |-> g, locations |-> locs, x |-> x]

\* part_000 lines 69-100
RECURSIVE PlaceWords(_, _, _, _, _)
PlaceWords(g, locs, ws, k, x) ==
  IF k > Len(ws) THEN [grid |-> g, locations |-> locs, x |-> x]
  ELSE LET r == PlaceLoop(g, locs, ws[k], 0, x)
       IN  PlaceWords(r.grid, r.locations, ws, k + 1, r.x)

\* part_000 lines 46-119, as a function of the state x of the random stream
generateLevel(x) ==
  LET s == SelectWords(SPANISH_WORDS, <<>>, x)
      p == PlaceWords(EmptyTempGrid, <<>>, SortByLengthDesc(s.sel), 1, s.x)
  IN  [grid |-> FinalGrid(p.grid, p.x), locations |-> ReturnedLocations(p.locations)]

\* ------------------------------------------------------------------ state
VARIABLES
  \* locals of a running generateLevel (part_000 lines 48-71)
  genPc, availableWords, selectedWords, tempGrid, locations, wordPos, attempts,
  \* state of the Grid component (Grid.tsx lines 18-20) and its telemetry
  \* ref pointerTypeRef (Grid.tsx line 25)
  startCell, currentCell, selectedCells, pointerType,
  \* state and refs of App (App.tsx lines 87-102)
  gameState, grid, words, score, foundWordsCount, timeLeft, isRegenerating,
  sessionStats, currentLevelIndex,
  \* pending setTimeout callbacks of the level-clear effect (App.tsx lines 260-265)
  regenTimers, unlockTimers,
  \* whether the last step raised an error, and the sound it played
  thrown, sound

genVars == <<genPc, availableWords, selectedWords, tempGrid, locations, wordPos, attempts>>
gridVars == <<startCell, currentCell, selectedCells, pointerType>>
appVars == <<gameState, grid, words, score, foundWordsCount, timeLeft, isRegenerating,
             sessionStats, currentLevelIndex, regenTimers, unlockTimers, thrown, sound>>
vars == <<genVars, gridVars, appVars>>

\* bounds of the exploration
MaxSeed == 2
MaxFillSeed == 2
MaxMatches == 2

\* the states of the random stream a level is generated from
Seeds == {(k * 8009) % 65537 : k \in 1 .. MaxSeed}
FillSeeds == {(k * 8009) % 65537 : k \in 1 .. MaxFillSeed}

NoCell == [row |-> -1, col |-> -1]

\* App.tsx lines 87-102
AppInit ==
  /\ gameState = "MENU"
  /\ grid = <<>>
  /\ words = <<>>
  /\ score = 0
  /\ foundWordsCount = 0
  /\ timeLeft = GAME_DURATION_SECONDS
  /\ isRegenerating = FALSE
  /\ sessionStats = <<>>
  /\ currentLevelIndex = -1
  /\ regenTimers = 0
  /\ unlockTimers = 0
  /\ thrown = FALSE
  /\ sound = "none"

\* Grid.tsx lines 18-25
GridInit ==
  /\ startCell = NoCell
  /\ currentCell = NoCell
  /\ selectedCells = <<>>
  /\ pointerType = "unknown"

\* part_000 lines 48-49, 62-63
GenInit ==
  /\ genPc = "select"
  /\ availableWords = SPANISH_WORDS
  /\ selectedWords = <<>>
  /\ tempGrid = EmptyTempGrid
  /\ locations = <<>>
  /\ wordPos = 1
  /\ attempts = 0

GenIdle ==
  /\ genPc = "idle"
  /\ availableWords = <<>>
  /\ selectedWords = <<>>
  /\ tempGrid = EmptyTempGrid
  /\ locations = <<>>
  /\ wordPos = 1
  /\ attempts = 0

\* ------------------------------------------- generateLevel, step by step
\* part_000 lines 51-59: one iteration, Math.random() free
GenSelect ==
  /\ genPc = "select"
  /\ Len(selectedWords) < WORD_COUNT_PER_LEVEL /\ Len(availableWords) > 0
  /\ \E index \in 0 .. (Len(availableWords) - 1) :
       LET it == SelectIter(availableWords, selectedWords, index)
       IN  /\ availableWords' = it.avail
           /\ selectedWords' = it.sel
  /\ UNCHANGED <<genPc, tempGrid, locations, wordPos, attempts, gridVars, appVars>>

\* part_000 lines 61-71: loop exit, the sort, entry of the placement loop
GenSort ==
  /\ genPc = "select"
  /\ ~(Len(selectedWords) < WORD_COUNT_PER_LEVEL /\ Len(availableWords) > 0)
  /\ selectedWords' = SortByLengthDesc(selectedWords)
  /\ genPc' = "place"
  /\ wordPos' = 1
  /\ attempts' = 0
  /\ UNCHANGED <<availableWords, tempGrid, locations, gridVars, appVars>>

\* part_000 lines 70-99: one pass of the retry loop, Math.random() free.  A
\* pass that places the word leaves the loop and enters the next word's
\* iteration (attempts = 0) in the same step.
GenAttempt ==
  /\ genPc = "place"
  /\ wordPos <= Len(selectedWords)
  /\ attempts < MAX_ATTEMPTS
  /\ \E dirIndex \in 0 .. 3, startRow \in Idx, startCol \in Idx :
       \E a \in {Attempt(tempGrid, locations, selectedWords[wordPos],
                        dirIndex, startRow, startCol)} :
           /\ tempGrid' = a.grid
           /\ locations' = a.locations
           /\ wordPos' = IF a.placed THEN wordPos + 1 ELSE wordPos
           /\ attempts' = IF a.placed THEN 0 ELSE attempts + 1
  /\ UNCHANGED <<genPc, availableWords, selectedWords, gridVars, appVars>>

\* part_000 line 73: the retry budget is spent, the word is dropped
GenGiveUp ==
  /\ genPc = "place"
  /\ wordPos <= Len(selectedWords)
  /\ ~(attempts < MAX_ATTEMPTS)
  /\ wordPos' = wordPos + 1
  /\ attempts' = 0
  /\ UNCHANGED <<genPc, availableWords, selectedWords, tempGrid, locations, gridVars, appVars>>

\* part_000 lines 102-118: the fill and the return; the level is held in
\* grid and words, as startLevel holds it (App.tsx lines 109-111)
GenReturn ==
  /\ genPc = "place"
  /\ wordPos > Len(selectedWords)
  /\ \E x \in FillSeeds : grid' = FinalGrid(tempGrid, x)
  /\ words' = ReturnedLocations(locations)
  /\ genPc' = "done"
  /\ UNCHANGED <<availableWords, selectedWords, tempGrid, locations, wordPos,
                 attempts, gridVars, gameState, score, foundWordsCount, timeLeft,
                 isRegenerating, sessionStats, currentLevelIndex, regenTimers,
                 unlockTimers, thrown, sound>>

GenNext == GenSelect \/ GenSort \/ GenAttempt \/ GenGiveUp \/ GenReturn
InitGen == GenInit /\ GridInit /\ AppInit
SpecGen == InitGen /\ [][GenNext]_vars

\* generateLevel has not returned
GenRuns == genPc # "done"

\* generateLevel is one synchronous call: a step of it that can run, runs.
\* The last conjunct is WF_vars(GenNext) written out: GenNext is enabled
\* exactly while generateLevel has not returned, and every step of SpecGen
\* that changes the state is a GenNext step.
FairSpecGen ==
  /\ SpecGen
  /\ WF_vars(GenSort)
  /\ ([]<>~GenRuns \/ []<><<GenRuns>>_vars)

\* --------------------------------------------------- Grid: path resolution
\* coordinates the path resolver is exercised on: 0 .. MaxCoord on each axis
MaxCoord == 3
PathCells == [row : 0 .. MaxCoord, col : 0 .. MaxCoord]

\* Grid.tsx lines 50-59: the effect that recomputes the selected path
SelectionPath(start, current) ==
  IF start # NoCell /\ current # NoCell THEN getCellsBetween(start, current)
  ELSE IF start # NoCell THEN <<start>>
  ELSE <<>>

InitPath ==
  /\ GenIdle /\ AppInit
  /\ startCell \in PathCells
  /\ currentCell \in PathCells
  /\ selectedCells = <<>>
  /\ pointerType = "unknown"

\* Grid.tsx lines 50-59
SelectionEffect ==
  /\ selectedCells = <<>>
  /\ selectedCells' = SelectionPath(startCell, currentCell)
  /\ UNCHANGED <<startCell, currentCell, pointerType, genVars, appVars>>

SpecPath == InitPath /\ [][SelectionEffect]_vars

\* ------------------------------------------------------------------- App
\* constants.ts THEME_COLORS: the cyclic palette of found words
THEME_COLORS == <<"bg-red-500", "bg-blue-500">>

\* the levels generateLevel() returns when the retry budget runs out for
\* every selected word (part_000 line 73: each of the 100 attempts of a word
\* can fall outside the grid): no placement, a grid of random letters
UnplacedLevels ==
  {[grid |-> FinalGrid(EmptyTempGrid, x), locations |-> <<>>] : x \in FillSeeds}

\* the levels generateLevel() returns (App.tsx line 109): those of the random
\* streams explored, and those without a placement
GeneratedLevels == {generateLevel(x) : x \in Seeds} \cup UnplacedLevels

\* App.tsx lines 108-116, on the level generated and the telemetry list `stats`
startLevelMutKeepCount(level, stats) ==
  /\ grid' = level.grid
  /\ words' = level.locations
  /\ foundWordsCount' = foundWordsCount
  /\ sessionStats' = Append(stats, <<>>)
  /\ currentLevelIndex' = Len(stats)
startLevel(level, stats) ==
  /\ grid' = level.grid
  /\ words' = level.locations
  /\ foundWordsCount' = 0
  /\ sessionStats' = Append(stats, <<>>)
  /\ currentLevelIndex' = Len(stats)

\* App.tsx lines 250-255: the condition of the level-clear effect
LevelClearCondMutNoEmptyGuard ==
  /\ gameState = "PLAYING"
  /\ foundWordsCount = Len(words)
  /\ ~isRegenerating
LevelClearCond ==
  /\ gameState = "PLAYING"
  /\ Len(words) > 0
  /\ foundWordsCount = Len(words)
  /\ ~isRegenerating

\* thrown and sound describe the step just taken: whether the handler raised
\* an error and which sound it played ("none" when it played none)
Outputs(t, s) == thrown' = t /\ sound' = s

\* App.tsx lines 118-136 (onClick of the start button, line 372).  The start
\* button is three menu screens away (App.tsx lines 297, 347, 372) and the
\* timeouts of a cleared level fire within 650 ms, so a game is started with
\* no timeout of an earlier game pending.
StartGame ==
  /\ gameState = "MENU"
  /\ regenTimers = 0 /\ unlockTimers = 0
  /\ score' = 0
  /\ timeLeft' = GAME_DURATION_SECONDS
  /\ gameState' = "PLAYING"
  /\ isRegenerating' = FALSE
  /\ \E level \in GeneratedLevels : startLevel(level, <<>>)
  /\ Outputs(FALSE, "none")
  /\ UNCHANGED <<regenTimers, unlockTimers, genVars, gridVars>>

\* App.tsx lines 279-281, 563: the game screen, and the Grid in it, is rendered
\* only while PLAYING; leaving PLAYING unmounts the Grid and drops its state
GridUnmount ==
  /\ startCell' = NoCell
  /\ currentCell' = NoCell
  /\ selectedCells' = <<>>
  /\ pointerType' = "unknown"

\* App.tsx lines 140-150: the interval callback, running while PLAYING
Tick ==
  /\ gameState = "PLAYING"
  /\ ~LevelClearCond
  /\ IF timeLeft <= 1
     THEN /\ gameState' = "GAME_OVER"
          /\ timeLeft' = 0
          /\ Outputs(FALSE, "gameover")
          /\ GridUnmount
     ELSE /\ timeLeft' = timeLeft - 1
          /\ gameState' = gameState
          /\ Outputs(FALSE, "none")
          /\ UNCHANGED gridVars
  /\ UNCHANGED <<grid, words, score, foundWordsCount, isRegenerating, sessionStats,
                 currentLevelIndex, regenTimers, unlockTimers, genVars>>

\* App.tsx lines 427-431: "Volver a jugar"
BackToMenu ==
  /\ gameState = "GAME_OVER"
  /\ gameState' = "MENU"
  /\ Outputs(FALSE, "none")
  /\ UNCHANGED <<grid, words, score, foundWordsCount, timeLeft, isRegenerating,
                 sessionStats, currentLevelIndex, regenTimers, unlockTimers,
                 genVars, gridVars>>

\* grid[c.row][c.col] is defined (App.tsx line 178 reads .char of it)
CellDefined(g, c) == c.row \in DOMAIN g /\ c.col \in DOMAIN g[c.row]

\* App.tsx line 178
selectedWordOf(g, selectedCoords) ==
  [i \in 1 .. Len(selectedCoords) |-> g[selectedCoords[i].row][selectedCoords[i].col].char]

\* App.tsx line 179: split('').reverse().join('')
reverseWordOfMutSame(w) == w
reverseWordOf(w) == [i \in 1 .. Len(w) |-> w[Len(w) + 1 - i]]

\* App.tsx lines 181-183: findIndex, 0-indexed, -1 when nothing matches
MatchesMutFound(ws, i, selectedWord, reverseWord) ==
  ws[i].word = selectedWord \/ ws[i].word = reverseWord
Matches(ws, i, selectedWord, reverseWord) ==
  ~ws[i].found /\ (ws[i].word = selectedWord \/ ws[i].word = reverseWord)
targetWordIndexOfMutLast(ws, selectedWord, reverseWord) ==
  LET hits == {i \in 1 .. Len(ws) : Matches(ws, i, selectedWord, reverseWord)}
  IN  IF hits = {} THEN -1
      ELSE (CHOOSE i \in hits : \A j \in hits : j <= i) - 1
targetWordIndexOf(ws, selectedWord, reverseWord) ==
  LET hits == {i \in 1 .. Len(ws) : Matches(ws, i, selectedWord, reverseWord)}
  IN  IF hits = {} THEN -1
      ELSE (CHOOSE i \in hits : \A j \in hits : i <= j) - 1

\* App.tsx lines 190-199
isBonusOf(t) == t <= BONUS_WINDOW
finalPointsOfMutNoBonus(word, t) == (Len(word) * 10) * t
finalPointsOf(word, t) ==
  LET basePoints == Len(word) * 10
      finalPoints == basePoints * t
  IN  IF t <= BONUS_WINDOW THEN finalPoints * 10 ELSE finalPoints

\* App.tsx line 201
colorClassOfMutFirst(targetWordIndex) == THEME_COLORS[1]
colorClassOf(targetWordIndex) == THEME_COLORS[(targetWordIndex % Len(THEME_COLORS)) + 1]

\* App.tsx lines 236-243
MarkFoundMutNoSpread(g, coords, colorClass) ==
  [r \in DOMAIN g |-> [c \in DOMAIN g[r] |->
     IF \E i \in 1 .. Len(coords) : coords[i] = Coord(r, c)
     THEN [char |-> "", found |-> TRUE, selectedColor |-> colorClass]
     ELSE g[r][c]]]
MarkFound(g, coords, colorClass) ==
  [r \in DOMAIN g |-> [c \in DOMAIN g[r] |->
     IF \E i \in 1 .. Len(coords) : coords[i] = Coord(r, c)
     THEN [g[r][c] EXCEPT !.found = TRUE, !.selectedColor = colorClass]
     ELSE g[r][c]]]

\* App.tsx lines 225-234 (the clock and pointer fields of the record are left out)
PushTelemetryMutPrepend(stats, levelIndex, word, points) ==
  IF levelIndex >= 0
  THEN [stats EXCEPT ![levelIndex + 1] =
          <<[palabra |-> word, puntos |-> points]>> \o @]
  ELSE stats
PushTelemetry(stats, levelIndex, word, points) ==
  IF levelIndex >= 0
  THEN [stats EXCEPT ![levelIndex + 1] =
          Append(@, [palabra |-> word, puntos |-> points])]
  ELSE stats

\* the matches of the running game: one telemetry record each
RECURSIVE MatchCount(_)
MatchCount(stats) ==
  IF stats = <<>> THEN 0 ELSE Len(stats[1]) + MatchCount(Tail(stats))

\* the paths a released drag hands over: Grid.tsx line 98 passes selectedCells,
\* the path of the drag's start and current cell, or nothing selected
ReleasedPaths == {getCellsBetween(s, e) : s \in Coordinate, e \in Coordinate} \cup {<<>>}

\* App.tsx lines 178-243: what the handler computes from the rendered grid g,
\* word list ws and time t for a path inside the grid
Evaluation(g, ws, t, selectedCoords) ==
  LET selectedWord == selectedWordOf(g, selectedCoords)
      reverseWord == reverseWordOf(selectedWord)
      targetWordIndex == targetWordIndexOf(ws, selectedWord, reverseWord)
  IN  IF targetWordIndex # -1
      THEN LET wordData == ws[targetWordIndex + 1]
               colorClass == colorClassOf(targetWordIndex)
           IN  [targetWordIndex |-> targetWordIndex,
                word |-> wordData.word,
                finalPoints |-> finalPointsOf(wordData.word, t),
                isBonus |-> isBonusOf(t),
                words |-> [ws EXCEPT ![targetWordIndex + 1] =
                             [@ EXCEPT !.found = TRUE, !.color = colorClass]],
                grid |-> MarkFound(g, wordData.coords, colorClass)]
      ELSE [targetWordIndex |-> -1, word |-> <<>>, finalPoints |-> 0,
            isBonus |-> FALSE, words |-> ws, grid |-> g]

\* App.tsx lines 169-247 on the path selectedCoords
handleSelectionEndMutPush(selectedCoords) ==
  IF Len(selectedCoords) = 0
  THEN /\ Outputs(FALSE, "none")
       /\ UNCHANGED <<grid, words, score, foundWordsCount, sessionStats>>
  ELSE IF \E i \in 1 .. Len(selectedCoords) : ~CellDefined(grid, selectedCoords[i])
  THEN /\ Outputs(TRUE, "none")
       /\ UNCHANGED <<grid, words, score, foundWordsCount, sessionStats>>
  ELSE
    \E ev \in {Evaluation(grid, words, timeLeft, selectedCoords)} :
      /\ words' = ev.words
      /\ score' = score + ev.finalPoints
      /\ foundWordsCount' = foundWordsCount + (IF ev.targetWordIndex # -1 THEN 1 ELSE 0)
      /\ Outputs(FALSE, IF ev.targetWordIndex = -1 THEN "none"
                        ELSE IF ev.isBonus THEN "bonus" ELSE "success")
      /\ sessionStats' = PushTelemetry(sessionStats, currentLevelIndex,
                                       ev.word, ev.finalPoints)
      /\ grid' = ev.grid
handleSelectionEnd(selectedCoords) ==
  IF Len(selectedCoords) = 0
  THEN /\ Outputs(FALSE, "none")
       /\ UNCHANGED <<grid, words, score, foundWordsCount, sessionStats>>
  ELSE IF \E i \in 1 .. Len(selectedCoords) : ~CellDefined(grid, selectedCoords[i])
  THEN \* TypeError: cannot read properties of undefined (reading 'char')
       /\ Outputs(TRUE, "none")
       /\ UNCHANGED <<grid, words, score, foundWordsCount, sessionStats>>
  ELSE
    \E ev \in {Evaluation(grid, words, timeLeft, selectedCoords)} :
      IF ev.targetWordIndex # -1
      THEN /\ words' = ev.words
           /\ score' = score + ev.finalPoints
           /\ foundWordsCount' = foundWordsCount + 1
           /\ Outputs(FALSE, IF ev.isBonus THEN "bonus" ELSE "success")
           /\ sessionStats' = PushTelemetry(sessionStats, currentLevelIndex,
                                            ev.word, ev.finalPoints)
           /\ grid' = ev.grid
      ELSE /\ Outputs(FALSE, "none")
           /\ UNCHANGED <<grid, words, score, foundWordsCount, sessionStats>>

\* Grid.tsx lines 90-104 with App.tsx lines 169-247: a drag is released while
\* the game screen is shown (App.tsx line 563)
SelectionEnd ==
  /\ gameState = "PLAYING"
  /\ ~LevelClearCond
  /\ MatchCount(sessionStats) < MaxMatches
  /\ \E selectedCoords \in ReleasedPaths : handleSelectionEnd(selectedCoords)
  /\ UNCHANGED <<gameState, timeLeft, isRegenerating, currentLevelIndex, regenTimers,
                 unlockTimers, genVars, gridVars>>

\* App.tsx lines 249-267: the level-clear effect, run after the render that
\* made its condition true and before any other event
LevelClearEffectMutNoLock ==
  /\ LevelClearCond
  /\ score' = score + (timeLeft * 10)
  /\ isRegenerating' = isRegenerating
  /\ Outputs(FALSE, "success")
  /\ regenTimers' = regenTimers + 1
  /\ UNCHANGED <<gameState, grid, words, foundWordsCount, timeLeft, sessionStats,
                 currentLevelIndex, unlockTimers, genVars, gridVars>>
LevelClearEffect ==
  /\ LevelClearCond
  /\ score' = score + (timeLeft * 10)
  /\ isRegenerating' = TRUE
  /\ Outputs(FALSE, "success")
  /\ regenTimers' = regenTimers + 1
  /\ UNCHANGED <<gameState, grid, words, foundWordsCount, timeLeft, sessionStats,
                 currentLevelIndex, unlockTimers, genVars, gridVars>>

\* App.tsx lines 260-262: the 600 ms timeout fires
RegenTimeoutMutResetsTime ==
  /\ regenTimers > 0
  /\ ~LevelClearCond
  /\ regenTimers' = regenTimers - 1
  /\ unlockTimers' = unlockTimers + 1
  /\ \E level \in GeneratedLevels : startLevel(level, sessionStats)
  /\ Outputs(FALSE, "none")
  /\ timeLeft' = GAME_DURATION_SECONDS
  /\ UNCHANGED <<gameState, score, isRegenerating, genVars, gridVars>>
RegenTimeout ==
  /\ regenTimers > 0
  /\ ~LevelClearCond
  /\ regenTimers' = regenTimers - 1
  /\ unlockTimers' = unlockTimers + 1
  /\ \E level \in GeneratedLevels : startLevel(level, sessionStats)
  /\ Outputs(FALSE, "none")
  /\ UNCHANGED <<gameState, score, timeLeft, isRegenerating, genVars, gridVars>>

\* App.tsx lines 262-264: the 50 ms timeout fires
UnlockTimeout ==
  /\ unlockTimers > 0
  /\ ~LevelClearCond
  /\ unlockTimers' = unlockTimers - 1
  /\ isRegenerating' = FALSE
  /\ Outputs(FALSE, "none")
  /\ UNCHANGED <<gameState, grid, words, score, foundWordsCount, timeLeft, sessionStats,
                 currentLevelIndex, regenTimers, genVars, gridVars>>

Init == GenIdle /\ GridInit /\ AppInit
Next ==
  \/ StartGame
  \/ Tick
  \/ BackToMenu
  \/ SelectionEnd
  \/ LevelClearEffect
  \/ RegenTimeout
  \/ UnlockTimeout
Spec == Init /\ [][Next]_vars

\* the game with its effect and its timeouts run by the event loop: an effect
\* whose condition holds runs, and a pending setTimeout callback fires.  At
\* most one 600 ms timeout is pending at a time, so weak fairness of
\* RegenTimeout is stated on its enabling condition: it does not stay enabled.
RegenEnabled == regenTimers > 0 /\ ~LevelClearCond
FairSpec ==
  /\ Spec
  /\ WF_vars(LevelClearEffect)
  /\ WF_vars(UnlockTimeout)
  /\ []<>~RegenEnabled

\* App.tsx lines 138-157: while PLAYING the interval fires every second; the
\* level-clear effect, which runs before it, is an effect of the render
FairSpecTimer ==
  /\ Spec
  /\ WF_vars(Tick)
  /\ WF_vars(LevelClearEffect)

\* ------------------------------------------------- the game with its drags
\* e.pointerType of the pointer events taken
PointerTypes == {"mouse", "touch"}

\* Grid.tsx lines 61-76 with the selection effect (lines 50-59) of the render
\* that follows; coords is getCellFromPoint's result, NoCell for null
handlePointerDown(coords, type) ==
  /\ pointerType' = type
  /\ IF coords # NoCell
     THEN /\ startCell' = coords
          /\ currentCell' = coords
          /\ selectedCells' = SelectionPath(coords, coords)
     ELSE UNCHANGED <<startCell, currentCell, selectedCells>>

\* Grid.tsx lines 78-88 with the selection effect
handlePointerMove(coords) ==
  IF startCell # NoCell /\ coords # NoCell /\ coords # currentCell
  THEN /\ currentCell' = coords
       /\ selectedCells' = SelectionPath(startCell, coords)
       /\ UNCHANGED <<startCell, pointerType>>
  ELSE UNCHANGED gridVars

\* Grid.tsx lines 90-104: an error raised by onSelectionEnd leaves the
\* handler before the resets of lines 100-102
handlePointerUp ==
  IF startCell # NoCell /\ currentCell # NoCell
  THEN /\ handleSelectionEnd(selectedCells)
       /\ IF thrown'
          THEN UNCHANGED gridVars
          ELSE /\ startCell' = NoCell
               /\ currentCell' = NoCell
               /\ selectedCells' = <<>>
               /\ UNCHANGED pointerType
  ELSE /\ startCell' = NoCell
       /\ currentCell' = NoCell
       /\ selectedCells' = <<>>
       /\ Outputs(FALSE, "none")
       /\ UNCHANGED <<pointerType, grid, words, score, foundWordsCount, sessionStats>>

\* the pointer events reach the Grid while the game screen is shown
PointerDown ==
  /\ gameState = "PLAYING"
  /\ ~LevelClearCond
  /\ \E coords \in Coordinate \cup {NoCell}, type \in PointerTypes :
       handlePointerDown(coords, type)
  /\ Outputs(FALSE, "none")
  /\ UNCHANGED <<genVars, gameState, grid, words, score, foundWordsCount, timeLeft,
                 isRegenerating, sessionStats, currentLevelIndex, regenTimers,
                 unlockTimers>>

PointerMoveMutEvaluates ==
  /\ gameState = "PLAYING"
  /\ ~LevelClearCond
  /\ startCell # NoCell
  /\ \E coords \in Coordinate :
       /\ currentCell' = coords
       /\ selectedCells' = SelectionPath(startCell, coords)
       /\ handleSelectionEnd(SelectionPath(startCell, coords))
  /\ UNCHANGED <<genVars, startCell, pointerType, gameState, timeLeft, isRegenerating,
                 currentLevelIndex, regenTimers, unlockTimers>>
PointerMove ==
  /\ gameState = "PLAYING"
  /\ ~LevelClearCond
  /\ \E coords \in Coordinate \cup {NoCell} : handlePointerMove(coords)
  /\ Outputs(FALSE, "none")
  /\ UNCHANGED <<genVars, gameState, grid, words, score, foundWordsCount, timeLeft,
                 isRegenerating, sessionStats, currentLevelIndex, regenTimers,
                 unlockTimers>>

PointerUp ==
  /\ gameState = "PLAYING"
  /\ ~LevelClearCond
  /\ MatchCount(sessionStats) < MaxMatches
  /\ handlePointerUp
  /\ UNCHANGED <<genVars, gameState, timeLeft, isRegenerating, currentLevelIndex,
                 regenTimers, unlockTimers>>

InitDrag == GenIdle /\ GridInit /\ AppInit
NextDrag ==
  \/ StartGame
  \/ Tick
  \/ BackToMenu
  \/ PointerDown
  \/ PointerMove
  \/ PointerUp
  \/ LevelClearEffect
  \/ RegenTimeout
  \/ UnlockTimeout
SpecDrag == InitDrag /\ [][NextDrag]_vars

\* ================================================================ claims
\* the grid characters at a placement's coordinates, in order, spell its word
Spells(g, w) ==
  /\ Len(w.coords) = Len(w.word)
  /\ \A i \in 1 .. Len(w.coords) :
       /\ CellDefined(g, w.coords[i])
       /\ g[w.coords[i].row][w.coords[i].col].char = w.word[i]

\* the reversal of a sequence, for the statements below
RevSeq(w) == [i \in 1 .. Len(w) |-> w[Len(w) - i + 1]]

\* C1: every level generateLevel returns has a grid of exactly GRID_SIZE rows
\* of exactly GRID_SIZE cells, and the grid characters at the coordinates of
\* every returned placement spell its word.
C1_ReturnedLevelSpellsItsWords ==
  genPc = "done" =>
    /\ DOMAIN grid = Idx
    /\ Cardinality(DOMAIN grid) = GRID_SIZE
    /\ \A r \in DOMAIN grid :
         DOMAIN grid[r] = Idx /\ Cardinality(DOMAIN grid[r]) = GRID_SIZE
    /\ \A k \in 1 .. Len(words) : Spells(grid, words[k])

\* a level is returned with WORD_COUNT_PER_LEVEL placements, two of them crossing
C1_Witness ==
  /\ genPc = "done"
  /\ Len(words) = WORD_COUNT_PER_LEVEL
  /\ \E a, b \in 1 .. Len(words) :
       /\ a < b
       /\ \E i \in 1 .. Len(words[a].coords), j \in 1 .. Len(words[b].coords) :
            words[a].coords[i] = words[b].coords[j]

\* C2: in every reachable state of a game the grid characters at each
\* placement's coordinates spell its word, and a step that does not replace
\* the level (startLevel, seen as a start of a game or a new telemetry list)
\* changes no cell character and no placement word or coordinate list.
LevelReplaced ==
  \/ gameState = "MENU" /\ gameState' = "PLAYING"
  \/ Len(sessionStats') = Len(sessionStats) + 1
LevelPreserved ==
  /\ DOMAIN grid' = DOMAIN grid
  /\ \A r \in DOMAIN grid :
       /\ DOMAIN grid'[r] = DOMAIN grid[r]
       /\ \A c \in DOMAIN grid[r] : grid'[r][c].char = grid[r][c].char
  /\ Len(words') = Len(words)
  /\ \A k \in 1 .. Len(words) :
       words'[k].word = words[k].word /\ words'[k].coords = words[k].coords
C2_GridAndWordsOfOneLevel ==
  /\ [](\A k \in 1 .. Len(words) : Spells(grid, words[k]))
  /\ [][LevelReplaced \/ LevelPreserved]_vars

\* a second level is in play after matches in the first, a tick and a regeneration
C2_Witness ==
  /\ gameState = "PLAYING"
  /\ Len(sessionStats) = 2
  /\ Len(sessionStats[1]) > 0
  /\ timeLeft < GAME_DURATION_SECONDS
  /\ Len(words) > 0
  /\ \E r \in Idx, c \in Idx : grid[r][c].char \notin {"A", "B"}

\* C3: a word is committed only where every covered cell is inside the grid
\* and is empty or holds the letter the word puts there; committing changes
\* no cell that was non-empty; so two placements sharing a cell have the same
\* letter at that cell.
Committed == Len(locations') = Len(locations) + 1
CommitIsValid ==
  LET loc == locations'[Len(locations')]
  IN  /\ \A i \in 1 .. Len(loc.word) :
           /\ loc.coords[i].row \in Idx /\ loc.coords[i].col \in Idx
           /\ tempGrid[loc.coords[i].row][loc.coords[i].col] \in {"", loc.word[i]}
           /\ tempGrid'[loc.coords[i].row][loc.coords[i].col] = loc.word[i]
      /\ \A r \in Idx, c \in Idx :
           tempGrid[r][c] # "" => tempGrid'[r][c] = tempGrid[r][c]
SharedCellsAgree(locs) ==
  \A a, b \in 1 .. Len(locs) :
    \A i \in 1 .. Len(locs[a].coords), j \in 1 .. Len(locs[b].coords) :
      locs[a].coords[i] = locs[b].coords[j] => locs[a].word[i] = locs[b].word[j]
C3_CommitOnlyOnCompatibleCells ==
  /\ [][Committed => CommitIsValid]_vars
  /\ [](SharedCellsAgree(locations) /\ SharedCellsAgree(words))

\* two committed placements cross in a cell
C3_Witness ==
  \E a, b \in 1 .. Len(locations) :
    /\ a < b
    /\ \E i \in 1 .. Len(locations[a].coords), j \in 1 .. Len(locations[b].coords) :
         locations[a].coords[i] = locations[b].coords[j]

\* the gesture resolved in the current state of the path resolver
Resolved == selectedCells # <<>>
GestureDx == Abs(currentCell.col - startCell.col)
GestureDy == Abs(currentCell.row - startCell.row)
SignOf(d) == IF d > 0 THEN 1 ELSE IF d < 0 THEN -1 ELSE 0

\* C4: for start and end inside the grid every coordinate of the resolved
\* path is inside the grid, so evaluating a released selection never raises
\* an error.
C4_ReleasedSelectionNeverRaises == thrown = FALSE

\* C5: a horizontal or vertical gesture resolves to exactly |d| + 1
\* coordinates, all in the start's row (column), covering every cell between
\* the two ends.
C5_StraightPathCoversTheSegment ==
  Resolved =>
    /\ startCell.row = currentCell.row =>
         /\ Len(selectedCells) = GestureDx + 1
         /\ \A i \in 1 .. Len(selectedCells) : selectedCells[i].row = startCell.row
         /\ {selectedCells[i].col : i \in 1 .. Len(selectedCells)} =
              Min(startCell.col, currentCell.col) .. Max(startCell.col, currentCell.col)
    /\ startCell.col = currentCell.col =>
         /\ Len(selectedCells) = GestureDy + 1
         /\ \A i \in 1 .. Len(selectedCells) : selectedCells[i].col = startCell.col
         /\ {selectedCells[i].row : i \in 1 .. Len(selectedCells)} =
              Min(startCell.row, currentCell.row) .. Max(startCell.row, currentCell.row)

\* a leftward horizontal drag over three or more cells is resolved
C5_Witness ==
  /\ Resolved
  /\ startCell.row = currentCell.row
  /\ startCell.col >= currentCell.col + 2

\* a gesture the resolver classifies as diagonal: both differences non-zero
\* and at most one apart
DiagonalGesture ==
  /\ GestureDx # 0 /\ GestureDy # 0
  /\ Abs(GestureDx - GestureDy) < 2
\* the path starts at the start cell, has max(|dx|,|dy|) + 1 coordinates and
\* moves one step on both axes, in the direction of the drag, at every step
DiagonalWalk ==
  /\ Len(selectedCells) = Max(GestureDx, GestureDy) + 1
  /\ selectedCells[1] = startCell
  /\ \A i \in 1 .. Len(selectedCells) - 1 :
       /\ selectedCells[i + 1].col - selectedCells[i].col =
            SignOf(currentCell.col - startCell.col)
       /\ selectedCells[i + 1].row - selectedCells[i].row =
            SignOf(currentCell.row - startCell.row)

\* C6 as stated: a diagonal path has max(|dx|,|dy|) + 1 coordinates, begins
\* at start, ends at end, and moves one step on both axes at every step.
C6_DiagonalPathEndsAtEnd ==
  Resolved /\ DiagonalGesture =>
    DiagonalWalk /\ selectedCells[Len(selectedCells)] = currentCell

\* C6 amended: a diagonal path has max(|dx|,|dy|) + 1 coordinates, begins at
\* start and moves one step on both axes, towards end, at every step; it ends
\* at end exactly when |dx| = |dy|, and otherwise at the cell
\* start + max(|dx|,|dy|) * (sign dx, sign dy), one past end on the shorter axis.
C6_DiagonalPathEndsAtEndIffSquare ==
  Resolved /\ DiagonalGesture =>
    /\ DiagonalWalk
    /\ (selectedCells[Len(selectedCells)] = currentCell) <=> (GestureDx = GestureDy)
    /\ selectedCells[Len(selectedCells)] =
         [row |-> startCell.row + Max(GestureDx, GestureDy)
                                  * SignOf(currentCell.row - startCell.row),
          col |-> startCell.col + Max(GestureDx, GestureDy)
                                  * SignOf(currentCell.col - startCell.col)]

\* a diagonal gesture with |dx| # |dy|, dragged up and to the right, is resolved
C6_Witness ==
  /\ Resolved /\ DiagonalGesture
  /\ GestureDx # GestureDy
  /\ currentCell.row < startCell.row
  /\ currentCell.col > startCell.col

\* C7: a gesture is invalid exactly when dy # 0, dx # 0 and ||dx| - |dy|| >= 2;
\* an invalid gesture resolves to the start cell alone, and no other gesture
\* with start # end resolves to a single coordinate.
InvalidGesture ==
  /\ GestureDy # 0 /\ GestureDx # 0
  /\ Abs(GestureDx - GestureDy) >= 2
C7_InvalidGestureIsTheStartCellAlone ==
  Resolved =>
    /\ InvalidGesture => selectedCells = <<startCell>>
    /\ ~InvalidGesture /\ startCell # currentCell => Len(selectedCells) >= 2

\* an invalid gesture is resolved
C7_Witness ==
  /\ Resolved /\ InvalidGesture
  /\ selectedCells = <<startCell>>

\* a step of the game in which a released selection matched a word
MatchStep == foundWordsCount' = foundWordsCount + 1
\* the placements the step marks found
MarkedNow == {k \in 1 .. Len(words) : ~words[k].found /\ words'[k].found}

\* C8: when a released selection matches, exactly one placement is marked
\* found, and it is the lowest-index unfound placement whose word is the
\* forward or the reversed string of the path (the marked word w is one of the
\* two strings, so these are the unfound placements with word w or reversed w).
C8_LowestIndexMatchIsMarked ==
  [][MatchStep =>
       /\ Len(words') = Len(words)
       /\ Cardinality(MarkedNow) = 1
       /\ \A k \in 1 .. Len(words) : words[k].found => words'[k].found
       /\ \A k \in MarkedNow : \A j \in 1 .. k - 1 :
            \/ words[j].found
            \/ /\ words[j].word # words[k].word
               /\ words[j].word # RevSeq(words[k].word)]_vars

\* of two unfound placements that are each other's reversal the first is found
C8_Witness ==
  /\ gameState = "PLAYING"
  /\ Len(words) = 2
  /\ words[1].word # words[2].word
  /\ words[1].word = RevSeq(words[2].word)
  /\ words[1].found /\ ~words[2].found

\* C9: a match of a word of length L at time-left t adds L * 10 * t points
\* without bonus when t > 5, and L * 10 * t * 10 points with the bonus flag
\* (the bonus sound) when t <= 5.
C9_PointsAndBonus ==
  [][MatchStep =>
       \A k \in MarkedNow :
         LET L == Len(words[k].word)
             t == timeLeft
         IN  /\ t > 5 => score' = score + L * 10 * t /\ sound' = "success"
             /\ t <= 5 => score' = score + L * 10 * t * 10 /\ sound' = "bonus"]_vars

\* a bonus match follows a match without bonus in the same level
C9_Witness ==
  /\ sound = "bonus"
  /\ \E l \in 1 .. Len(sessionStats) :
       /\ Len(sessionStats[l]) = 2
       /\ sessionStats[l][1].puntos =
            Len(sessionStats[l][1].palabra) * 10 * GAME_DURATION_SECONDS
       /\ sessionStats[l][2].puntos >= Len(sessionStats[l][2].palabra) * 100

\* paths inside the grid that can be released
InsidePaths ==
  {p \in ReleasedPaths :
     Len(p) > 0 /\ \A i \in 1 .. Len(p) : CellDefined(grid, p[i])}
\* the paths that spell an unfound word forward
ForwardPaths ==
  {p \in InsidePaths :
     \E k \in 1 .. Len(words) :
       ~words[k].found /\ words[k].word = selectedWordOf(grid, p)}

\* C10: a path that spells an unfound word backward is evaluated exactly as
\* a path that spells it forward: same placement marked, same cells marked,
\* same points and bonus.
C10_BackwardEqualsForward ==
  gameState = "PLAYING" =>
    \A p \in ForwardPaths : \A q \in InsidePaths :
      Len(q) = Len(p) /\ selectedWordOf(grid, q) = RevSeq(selectedWordOf(grid, p))
        => Evaluation(grid, words, timeLeft, q) = Evaluation(grid, words, timeLeft, p)

\* after a match, an unfound word that is no palindrome can be spelled
\* backward by a path of the grid
C10_Witness ==
  /\ gameState = "PLAYING"
  /\ foundWordsCount = 1
  /\ \E p \in ForwardPaths : \E q \in InsidePaths :
       /\ selectedWordOf(grid, q) = RevSeq(selectedWordOf(grid, p))
       /\ selectedWordOf(grid, q) # selectedWordOf(grid, p)

UnmatchedPaths ==
  {p \in InsidePaths :
     \A k \in 1 .. Len(words) :
       \/ words[k].found
       \/ /\ words[k].word # selectedWordOf(grid, p)
          /\ words[k].word # RevSeq(selectedWordOf(grid, p))}
\* a step of the game that is no match, no tick, no timeout, no level-clear and
\* no change of screen: the evaluation of a released path that matched nothing
UnmatchedStep ==
  /\ gameState = "PLAYING" /\ gameState' = "PLAYING"
  /\ foundWordsCount' = foundWordsCount
  /\ timeLeft' = timeLeft
  /\ isRegenerating' = isRegenerating
  /\ regenTimers' = regenTimers
  /\ unlockTimers' = unlockTimers

\* C12: evaluating an empty path, or a path whose forward and reversed strings
\* equal no unfound word, is a no-op: it matches no placement, and the grid,
\* the word list, the score, the found-word count and the telemetry lists are
\* unchanged.
C12_UnmatchedPathIsNoOp ==
  /\ [](gameState = "PLAYING" =>
          \A p \in UnmatchedPaths :
            LET ev == Evaluation(grid, words, timeLeft, p)
            IN  /\ ev.targetWordIndex = -1
                /\ ev.finalPoints = 0
                /\ ev.grid = grid
                /\ ev.words = words)
  /\ [][UnmatchedStep =>
          UNCHANGED <<grid, words, score, foundWordsCount, sessionStats>>]_vars

\* a level in play, one word found, and a path of two or more cells that
\* spells no unfound word
C12_Witness ==
  /\ gameState = "PLAYING"
  /\ foundWordsCount = 1
  /\ score > 0
  /\ \E p \in UnmatchedPaths : Len(p) >= 2

\* the placements found, and the telemetry list of the level in play
FoundSet(ws) == {k \in 1 .. Len(ws) : ws[k].found}
CurrentStats == sessionStats[Len(sessionStats)]

\* C13: a found placement stays found until its level is replaced, and no
\* later selection matches it again: every match marks a placement that was
\* unfound and scores that placement's points, so each placement of a level
\* adds points at most once (one telemetry record per found placement).
C13_FoundPlacementScoresOnce ==
  /\ [][~LevelReplaced =>
          \A k \in 1 .. Len(words) : words[k].found => words'[k].found]_vars
  /\ [][MatchStep =>
          /\ FoundSet(words') = FoundSet(words) \cup MarkedNow
          /\ \E k \in MarkedNow :
               /\ ~words[k].found
               /\ score' - score \in {Len(words[k].word) * 10 * timeLeft,
                                      Len(words[k].word) * 10 * timeLeft * 10}]_vars
  /\ [](gameState = "PLAYING" =>
          /\ foundWordsCount = Cardinality(FoundSet(words))
          /\ Len(CurrentStats) = foundWordsCount
          /\ \A a, b \in 1 .. Len(CurrentStats) :
               a # b => CurrentStats[a].palabra # CurrentStats[b].palabra)

\* a word is found, time has passed, and paths of the grid still spell it
C13_Witness ==
  /\ gameState = "PLAYING"
  /\ foundWordsCount = 1
  /\ timeLeft < GAME_DURATION_SECONDS
  /\ \E k \in 1 .. Len(words) :
       /\ words[k].found
       /\ \E p \in InsidePaths : selectedWordOf(grid, p) = words[k].word
       /\ \E p \in InsidePaths : selectedWordOf(grid, p) = RevSeq(words[k].word)

\* the step of the level-clear rule, and all words of a non-empty level found
ClearStep == ~isRegenerating /\ isRegenerating'
AllFound == Len(words) > 0 /\ foundWordsCount = Len(words)

C15_EmptyLevelIsNeverCleared ==
  [][(gameState = "PLAYING" /\ Len(words) = 0) =>
       /\ score' = score
       /\ sound' # "success"
       /\ ~ClearStep
       /\ regenTimers = 0 /\ regenTimers' = 0
       /\ grid' = grid /\ words' = words
       /\ foundWordsCount' = 0]_vars

\* a level without placements is in play, after a cleared level, and time
\* has passed since it was installed
C15_Witness ==
  /\ gameState = "PLAYING"
  /\ Len(words) = 0
  /\ Len(sessionStats) = 2
  /\ ~isRegenerating
  /\ score > 0
  /\ timeLeft = 1

RegenerationStep == regenTimers' < regenTimers

\* C17: when the level is regenerated while a drag is in progress, the
\* in-flight selection is discarded: the Grid holds no start cell, no current
\* cell and no selected path after the step, so that a later release hands
\* nothing over for evaluation against the new level.
C17_RegenerationDiscardsInFlightSelection ==
  [][(RegenerationStep /\ startCell # NoCell) =>
       /\ startCell' = NoCell
       /\ currentCell' = NoCell
       /\ selectedCells' = <<>>]_vars

\* C18: while a drag is unresolved (a start cell is set), a further
\* pointer-down starts no new selection: every step that leaves a start cell
\* set leaves the start cell and the pointer type recorded at the start of the
\* drag unchanged.
C18_PointerDownDuringDragIsIgnored ==
  [][(startCell # NoCell /\ startCell' # NoCell) =>
       /\ startCell' = startCell
       /\ pointerType' = pointerType]_vars

\* the pool entries that fit the grid, and the entries of a list as a set
FittingEntries == {i \in DOMAIN SPANISH_WORDS : Len(SPANISH_WORDS[i]) <= GRID_SIZE}
Entries(ws) == {ws[i] : i \in DOMAIN ws}

\* C19: generateLevel selects at most WORD_COUNT_PER_LEVEL words, never the
\* same pool entry twice (a selected entry has left the available words, and
\* the selected words are pairwise different entries of the pool) and never a
\* word longer than GRID_SIZE; an iteration that draws a too-long word removes
\* it without selecting it, so when the pool holds at least
\* WORD_COUNT_PER_LEVEL fitting words the selection ends with exactly
\* WORD_COUNT_PER_LEVEL words.
C19_SelectionIsBoundedDistinctAndFits ==
  /\ [](genPc # "idle" =>
          /\ Len(selectedWords) <= WORD_COUNT_PER_LEVEL
          /\ \A i \in DOMAIN selectedWords :
               /\ selectedWords[i] \in Entries(SPANISH_WORDS)
               /\ selectedWords[i] \notin Entries(availableWords)
               /\ Len(selectedWords[i]) <= GRID_SIZE
          /\ \A i, j \in DOMAIN selectedWords :
               i # j => selectedWords[i] # selectedWords[j]
          /\ Len(availableWords) + Len(selectedWords) <= Len(SPANISH_WORDS)
          /\ (genPc # "select" /\ Cardinality(FittingEntries) >= WORD_COUNT_PER_LEVEL)
               => Len(selectedWords) = WORD_COUNT_PER_LEVEL)
  /\ [][(genPc = "select" /\ genPc' = "select") =>
          /\ Len(availableWords') = Len(availableWords) - 1
          /\ \/ selectedWords' = selectedWords
                /\ \E w \in Entries(availableWords) \ Entries(availableWords') :
                     Len(w) > GRID_SIZE
             \/ \E w \in Entries(availableWords) \ Entries(availableWords') :
                  /\ Len(w) <= GRID_SIZE
                  /\ selectedWords' = Append(selectedWords, w)]_vars

\* the selection has ended with the full count after an iteration that drew
\* the too-long word and skipped it
C19_Witness ==
  /\ genPc = "place"
  /\ Len(selectedWords) = WORD_COUNT_PER_LEVEL
  /\ Len(availableWords) = Len(SPANISH_WORDS) - WORD_COUNT_PER_LEVEL - 1
  /\ \E i \in DOMAIN SPANISH_WORDS :
       /\ Len(SPANISH_WORDS[i]) > GRID_SIZE
       /\ SPANISH_WORDS[i] \notin Entries(availableWords)

\* the position of an entry in a list without repeated entries
PosIn(ws, w) == CHOOSE i \in DOMAIN ws : ws[i] = w
\* the words of a placement list
WordsOf(locs) == [i \in DOMAIN locs |-> locs[i].word]
\* list b holds entries of list a, in the order they have in a
KeepsOrderOf(b, a) ==
  /\ \A i \in DOMAIN b : b[i] \in Entries(a)
  /\ \A i, j \in DOMAIN b : i < j => PosIn(a, b[i]) < PosIn(a, b[j])
\* list b is list a ordered by non-increasing length, ties in the order of a
StableByLengthDesc(b, a) ==
  /\ Len(b) = Len(a)
  /\ Entries(b) = Entries(a)
  /\ \A i, j \in DOMAIN b :
       i < j => \/ Len(b[i]) > Len(b[j])
                \/ Len(b[i]) = Len(b[j]) /\ PosIn(a, b[i]) < PosIn(a, b[j])

\* C20: the placement list generateLevel returns is ordered by non-increasing
\* word length, with words of equal length in the order they were selected:
\* the sort puts the selected words in that order, the placement loop leaves
\* the sorted list alone and appends placements in its order, and the
\* returned list holds the placed words in the order of the sorted list.
C20_ReturnedListIsLengthDescStable ==
  /\ [][(genPc = "select" /\ genPc' = "place") =>
          StableByLengthDesc(selectedWords', selectedWords)]_vars
  /\ [][genPc = "place" => selectedWords' = selectedWords]_vars
  /\ [](genPc = "place" => KeepsOrderOf(WordsOf(locations), selectedWords))
  /\ [](genPc = "done" =>
          /\ KeepsOrderOf(WordsOf(words), selectedWords)
          /\ \A i, j \in DOMAIN words :
               i < j => Len(words[i].word) >= Len(words[j].word))

\* a level is returned with two different words of equal length
C20_Witness ==
  /\ genPc = "done"
  /\ Len(words) = 2
  /\ Len(words[1].word) = Len(words[2].word)
  /\ words[1].word # words[2].word

\* an invariant of SpecGen: a step of generateLevel is enabled exactly while
\* it has not returned (what the fairness condition of FairSpecGen rests on)
GenRunsIsGenNextEnabled == GenRuns <=> ENABLED <<GenNext>>_vars

\* the placement loop is at a word: its steps
PlacedStep ==
  /\ attempts < MAX_ATTEMPTS
  /\ wordPos' = wordPos + 1 /\ attempts' = 0
  /\ Len(locations') = Len(locations) + 1
  /\ locations'[Len(locations')].word = selectedWords[wordPos]
FailedStep ==
  /\ attempts < MAX_ATTEMPTS
  /\ wordPos' = wordPos /\ attempts' = attempts + 1
  /\ tempGrid' = tempGrid /\ locations' = locations
DroppedStep ==
  /\ attempts = MAX_ATTEMPTS
  /\ wordPos' = wordPos + 1 /\ attempts' = 0
  /\ tempGrid' = tempGrid /\ locations' = locations
  /\ selectedWords[wordPos] \notin Entries(WordsOf(locations'))

\* C21: generateLevel always terminates.  Every iteration of the selection
\* loop removes one entry of the available words; a selected word is tried at
\* most MAX_ATTEMPTS (100) times, a failed try writing nothing; a word whose
\* tries are all spent is passed over with the grid and the placements as
\* they were, so it is in no placement (the placements are of words the loop
\* has passed, and every character of the grid lies under a placement that
\* holds it) and is absent from the returned list; the call reaches its
\* return.
C21_GenerateLevelTerminates ==
  /\ [](attempts \in 0 .. MAX_ATTEMPTS)
  /\ [][(genPc = "select" /\ genPc' = "select") =>
          Len(availableWords') = Len(availableWords) - 1]_vars
  /\ [][(genPc = "place" /\ genPc' = "place") =>
          PlacedStep \/ FailedStep \/ DroppedStep]_vars
  /\ [](genPc \in {"place", "done"} =>
          /\ \A l \in DOMAIN locations :
               PosIn(selectedWords, locations[l].word) < wordPos
          /\ \A r \in Idx, c \in Idx :
               tempGrid[r][c] # "" =>
                 \E l \in DOMAIN locations : \E i \in DOMAIN locations[l].coords :
                   /\ locations[l].coords[i] = Coord(r, c)
                   /\ locations[l].word[i] = tempGrid[r][c])
  /\ [](genPc = "done" => words = locations)
  /\ <>(genPc = "done")

\* generateLevel has returned one placement after dropping the other word
C21_Witness ==
  /\ genPc = "done"
  /\ Len(selectedWords) = WORD_COUNT_PER_LEVEL
  /\ Len(words) = 1
  /\ \E k \in DOMAIN selectedWords : selectedWords[k] \notin Entries(WordsOf(words))

\* the 26 Latin letters and the Spanish N with tilde
LatinLetters ==
  {"A", "B", "C", "D", "E", "F", "G", "H", "I", "J", "K", "L", "M", "N",
   "O", "P", "Q", "R", "S", "T", "U", "V", "W", "X", "Y", "Z"}
FixedAlphabet == LatinLetters \cup {"#D1"}
\* the cells of the returned grid that no returned placement covers
Uncovered ==
  {co \in Coordinate :
     \A l \in DOMAIN words : \A i \in DOMAIN words[l].coords : words[l].coords[i] # co}

\* C22: after generation no grid cell is empty: every cell that no placement
\* covers holds one symbol of the alphabet of 27 symbols (the 26 Latin letters
\* and the N with tilde), and every cell has found = false and no colour.
C22_FilledFromFixedAlphabet ==
  genPc = "done" =>
    /\ Cardinality(FixedAlphabet) = 27
    /\ \A r \in Idx, c \in Idx :
         /\ grid[r][c].char # ""
         /\ grid[r][c].found = FALSE
         /\ grid[r][c].selectedColor = ""
    /\ \A co \in Uncovered : grid[co.row][co.col].char \in FixedAlphabet

\* what does hold of the returned grid: the same with the 28 code units of
\* the ALPHABET string of the source in place of the 27 symbols
C22_FilledFromSourceString ==
  genPc = "done" =>
    /\ Len(ALPHABET) = 28
    /\ \A r \in Idx, c \in Idx :
         /\ grid[r][c].char # ""
         /\ grid[r][c].found = FALSE
         /\ grid[r][c].selectedColor = ""
    /\ \A co \in Uncovered : grid[co.row][co.col].char \in Entries(ALPHABET)

\* the four direction vectors, as (row, col) steps
Directions ==
  {[dr |-> 0, dc |-> 1], [dr |-> 1, dc |-> 0], [dr |-> 1, dc |-> 1], [dr |-> 1, dc |-> -1]}
\* the coordinate list runs from its first cell by steps of d
RunsAlong(coords, d) ==
  \A i \in DOMAIN coords :
    coords[i] = Coord(coords[1].row + (i - 1) * d.dr, coords[1].col + (i - 1) * d.dc)

\* C23: every returned placement has exactly one coordinate per letter of its
\* word, all inside the grid, and consecutive coordinates differ by one and
\* the same direction vector, one of (0,+1), (+1,0), (+1,+1), (+1,-1) as
\* (row, col) steps.
C23_PlacementsRunAlongOneDirection ==
  genPc = "done" =>
    \A l \in DOMAIN words :
      /\ Len(words[l].coords) = Len(words[l].word)
      /\ \A i \in DOMAIN words[l].coords : words[l].coords[i] \in Coordinate
      /\ \E d \in Directions :
           /\ RunsAlong(words[l].coords, d)
           /\ \A i \in 1 .. Len(words[l].coords) - 1 :
                /\ words[l].coords[i + 1].row - words[l].coords[i].row = d.dr
                /\ words[l].coords[i + 1].col - words[l].coords[i].col = d.dc

\* a level is returned with one placement running down-left and another
\* running right
C23_Witness ==
  /\ genPc = "done"
  /\ \E l \in DOMAIN words : RunsAlong(words[l].coords, [dr |-> 1, dc |-> -1])
  /\ \E l \in DOMAIN words : RunsAlong(words[l].coords, [dr |-> 0, dc |-> 1])

\* the path of the same two cells dragged the other way
ReversedGesturePath == getCellsBetween(currentCell, startCell)

\* C24: for two cells in the same row or the same column the path is the
\* same whichever of the two the drag starts at, and lists the cells in
\* ascending index order; for an exact diagonal (|dx| = |dy|) the path of the
\* drag the other way is the reverse of the path.
C24_StraightPathsIgnoreDragDirection ==
  Resolved =>
    /\ (GestureDy = 0 \/ GestureDx = 0) =>
          /\ ReversedGesturePath = selectedCells
          /\ \A i \in 1 .. Len(selectedCells) - 1 :
               IF GestureDy = 0
               THEN /\ selectedCells[i + 1].col = selectedCells[i].col + 1
                    /\ selectedCells[i + 1].row = selectedCells[i].row
               ELSE /\ selectedCells[i + 1].row = selectedCells[i].row + 1
                    /\ selectedCells[i + 1].col = selectedCells[i].col
    /\ GestureDx = GestureDy => ReversedGesturePath = RevSeq(selectedCells)

\* an upward vertical drag over three or more cells is resolved: the path
\* begins at the cell the drag ends at
C24_Witness ==
  /\ Resolved
  /\ GestureDx = 0
  /\ startCell.row - currentCell.row >= 2
  /\ selectedCells[1] = currentCell
  /\ selectedCells[Len(selectedCells)] = startCell

\* the level state a selection can change
levelState == <<grid, words, score, foundWordsCount, sessionStats>>
\* a step in which the Grid's drag state changes and a start cell stays or
\* becomes set: a pointer-down, or a pointer-move with its path resolution
DragStep == gridVars' # gridVars /\ startCell' # NoCell
\* a step of App that is no evaluation of a selection: a start of a game, the
\* level-clear effect, a regeneration
AppStep ==
  \/ gameState' # gameState
  \/ ClearStep
  \/ RegenerationStep

C26_LevelsAreInstalledOnlyWhilePlaying ==
  /\ [][LevelReplaced => gameState' = "PLAYING"]_vars
  /\ [][RegenerationStep => gameState = "PLAYING"]_vars

\* C27: in every reachable state foundWordsCount is the number of placements
\* of the current word list whose found flag is true, and so never exceeds
\* words.length.
C27_FoundCountIsTheNumberOfFoundPlacements ==
  /\ foundWordsCount = Cardinality(FoundSet(words))
  /\ foundWordsCount <= Len(words)

\* a level whose two words were found has been replaced by a level of two
\* words, none found, and the count is 0 again
C27_Witness ==
  /\ Len(sessionStats) = 2
  /\ Len(sessionStats[1]) = 2
  /\ Len(words) = 2
  /\ FoundSet(words) = {}
  /\ foundWordsCount = 0

\* C28: while the game is PLAYING a countdown tick lowers timeLeft by exactly
\* 1 and nothing else changes it, a regeneration included; timeLeft is never
\* below 0; the tick taken with timeLeft <= 1 sets timeLeft to 0 and the game
\* state to GAME_OVER, and the game ends no other way; with fair ticks every
\* started game reaches GAME_OVER, and no step taken in GAME_OVER scores or
\* records a match.
C28_CountdownEndsEveryGame ==
  /\ [](timeLeft \in 0 .. GAME_DURATION_SECONDS)
  /\ [](gameState = "PLAYING" => timeLeft >= 1)
  /\ [][gameState = "PLAYING" =>
          \/ timeLeft' = timeLeft /\ gameState' = "PLAYING"
          \/ /\ timeLeft > 1 /\ timeLeft' = timeLeft - 1
             /\ gameState' = "PLAYING"
          \/ /\ timeLeft <= 1 /\ timeLeft' = 0
             /\ gameState' = "GAME_OVER"]_vars
  /\ [][RegenerationStep => timeLeft' = timeLeft]_vars
  /\ [][gameState = "GAME_OVER" =>
          /\ score' = score
          /\ ~MatchStep
          /\ MatchCount(sessionStats') = MatchCount(sessionStats)
          /\ FoundSet(words') \subseteq FoundSet(words)]_vars
  /\ (gameState = "PLAYING") ~> (gameState = "GAME_OVER")

\* a game in which a level was cleared and regenerated is over at time 0
C28_Witness ==
  /\ gameState = "GAME_OVER"
  /\ timeLeft = 0
  /\ Len(sessionStats) = 2
  /\ Len(sessionStats[1]) = 2
  /\ ~isRegenerating
  /\ score > 0

====
